---- MODULE Spec2Model ----
(***************************************************************************)
(* Label-format validation and repair of the Cityscapes YOLO scripts       *)
(* (label_format_fix.py).                                                  *)
(*                                                                         *)
(* A file's text is a sequence of items.  An item is one whitespace        *)
(* character ("sp": blank or tab; "nl": the line break as text mode reads   *)
(* it), the literal two-character sequence backslash + 'n' ("esc"), or   *)
(* an atom: a maximal piece of text free of whitespace and of backslash-n. *)
(* An atom records how Python's int() and float() read it:                 *)
(*   k = "int"  : an integer literal of value v; x = 0 when it is written  *)
(*                the way str(int) writes it, 1 otherwise ("07", "+7")     *)
(*   k = "dec"  : a decimal literal with a '.', of value v * 10^-7;        *)
(*                x = 6 when written with exactly six decimals, else 0     *)
(*   k = "nan"  : the text "nan" (float() reads it, int() does not)        *)
(*   k = "word" : text neither int() nor float() reads                     *)
(* Contents never hold two adjacent atoms (that would be one atom).        *)
(***************************************************************************)
EXTENDS Integers, Sequences, FiniteSets, TLC

VARIABLES fs, dirs, hist, pc, splitIdx, todo, stats, report, imgs, gone, main, match,
          analysis, masks, lookup, home

vars == <<fs, dirs, hist, pc, splitIdx, todo, stats, report, imgs, gone, main, match,
          analysis, masks, lookup, home>>

(* ---------------------------------------------------------------- bounds *)
MaxSegs == 3      \* segments of a multi-segment file
MaxCalls == 2     \* calls of fix_label_format on one file
MaxFiles == 3     \* label files of a dataset walked by fix_all_labels

(* ------------------------------------------------------ program constants *)
MaxClassId == 39      \* 0 <= class_id <= 39
BoxTokens == 5        \* len(parts) == 5
MinPolyTokens == 7    \* len(parts) >= 7
Unit == 10000000      \* the float 1.0 in units of 10^-7

(* ------------------------------------------------------------------ items *)
Item(k, v, x) == [k |-> k, v |-> v, x |-> x]
SP  == Item("sp", 0, 0)
NL  == Item("nl", 0, 0)
ESC == Item("esc", 0, 0)
IntTok(n)     == Item("int", n, 0)
OddIntTok(n)  == Item("int", n, 1)
DecTok(u)     == Item("dec", u, 0)
Dec6Tok(u)    == Item("dec", u, 6)
NanTok        == Item("nan", 0, 0)
WordTok       == Item("word", 0, 0)

IsSpace(it) == it.k \in {"sp", "nl"}

(* ------------------------------------------------- Python string methods *)
\* str.strip(): leading and trailing whitespace removed
RECURSIVE LStrip(_)
LStrip(s) == IF s # <<>> /\ IsSpace(Head(s)) THEN LStrip(Tail(s)) ELSE s

RECURSIVE RStrip(_)
RStrip(s) ==
  IF s # <<>> /\ IsSpace(s[Len(s)]) THEN RStrip(SubSeq(s, 1, Len(s) - 1)) ELSE s

Strip(s) == RStrip(LStrip(s))

\* str.split(sep) for a one-item separator kind: the pieces between the
\* separators, empty pieces kept
RECURSIVE SplitOn(_, _)
SplitOn(s, kind) ==
  IF \A i \in 1..Len(s) : s[i].k # kind
    THEN <<s>>
    ELSE LET i == CHOOSE j \in 1..Len(s) :
                    /\ s[j].k = kind
                    /\ \A h \in 1..(j - 1) : s[h].k # kind
         IN  <<SubSeq(s, 1, i - 1)>> \o SplitOn(SubSeq(s, i + 1, Len(s)), kind)

\* content.replace('\\n', '\n')
ReplaceEsc(s) == [i \in 1..Len(s) |-> IF s[i].k = "esc" THEN NL ELSE s[i]]

\* str.split(): the maximal runs of non-whitespace items
RECURSIVE SplitWs(_)
SplitWs(s) ==
  LET t == LStrip(s) IN
  IF t = <<>> THEN <<>>
  ELSE IF \A i \in 1..Len(t) : ~IsSpace(t[i])
    THEN <<t>>
    ELSE LET i == CHOOSE j \in 1..Len(t) :
                    /\ IsSpace(t[j])
                    /\ \A h \in 1..(j - 1) : ~IsSpace(t[h])
         IN  <<SubSeq(t, 1, i - 1)>> \o SplitWs(SubSeq(t, i + 1, Len(t)))

\* sep.join(lines)
RECURSIVE Join(_, _)
Join(lines, sep) ==
  IF lines = <<>> THEN <<>>
  ELSE IF Len(lines) = 1 THEN lines[1]
  ELSE lines[1] \o sep \o Join(Tail(lines), sep)

(* -------------------------------------------------------- int() / float() *)
\* int(token): a token is a run of items; only a single integer literal parses
IntParse(tok) ==
  IF Len(tok) = 1 /\ tok[1].k = "int"
    THEN [ok |-> TRUE, val |-> tok[1].v]
    ELSE [ok |-> FALSE, val |-> 0]

\* float(token): integer and decimal literals and "nan" parse; the value is
\* kept in units of 10^-7
FloatParse(tok) ==
  IF Len(tok) # 1 THEN [ok |-> FALSE, nan |-> FALSE, u |-> 0]
  ELSE IF tok[1].k = "int" THEN [ok |-> TRUE, nan |-> FALSE, u |-> tok[1].v * Unit]
  ELSE IF tok[1].k = "dec" THEN [ok |-> TRUE, nan |-> FALSE, u |-> tok[1].v]
  ELSE IF tok[1].k = "nan" THEN [ok |-> TRUE, nan |-> TRUE, u |-> 0]
  ELSE [ok |-> FALSE, nan |-> FALSE, u |-> 0]

\* 0 <= c <= 1 (every comparison with nan is False)
InUnitInterval(f) == ~f.nan /\ 0 <= f.u /\ f.u <= Unit

\* (the upper limit excluded)
ClassInRangeExclusive(c) == 0 <= c /\ c < MaxClassId

\* (one class id too many accepted)
ClassInRangeUpTo40(c) == 0 <= c /\ c <= MaxClassId + 1

\* 0 <= class_id <= 39
ClassInRange(c) == 0 <= c /\ c <= MaxClassId

\* (f"{c:.4f}": four decimals)
Round6Coarse(u) == ((u + 500) \div 1000) * 1000

\* f"{c:.6f}": the value rounded to six decimals, written with six decimals
\* (only values in [0,1] are formatted; a value exactly half-way between two
\* six-decimal numbers is rounded by its binary expansion in Python, and the
\* coordinates of the files below hold none)
Round6(u) == ((u + 5) \div 10) * 10
Format6(u) == Dec6Tok(Round6(u))

\* f"{class_id}"
FormatInt(n) == IntTok(n)

(* --------------------------------------------------------- fix_label_format *)
\* len(parts) == 5
IsBoxCount(n) == n = BoxTokens

\* (the parity test lost)
IsPolyCountAnyParity(n) == n >= MinPolyTokens

\* len(parts) >= 7 and len(parts) % 2 == 1
IsPolyCount(n) == n >= MinPolyTokens /\ n % 2 = 1

\* The try block shared by the two branches: class_id = int(parts[0]),
\* coords = [float(x) for x in parts[1:]], the range test, and the line that
\* is appended to fixed_lines (none after a ValueError or a failed test).
ValidateAndFormat(parts) ==
  LET cls    == IntParse(parts[1])
      coords == [i \in 1..(Len(parts) - 1) |-> FloatParse(parts[i + 1])]
  IN  IF ~cls.ok \/ \E i \in DOMAIN coords : ~coords[i].ok
        THEN <<>>
      ELSE IF ClassInRange(cls.val) /\ \A i \in DOMAIN coords : InUnitInterval(coords[i])
        THEN << Join(<< <<FormatInt(cls.val)>> >>
                     \o [i \in DOMAIN coords |-> <<Format6(coords[i].u)>>], <<SP>>) >>
      ELSE <<>>

\* One pass of the loop body over annotation_line: the lines it appends
ParseLine(annotation_line) ==
  LET line  == Strip(annotation_line)
      parts == SplitWs(line)
  IN  IF line = <<>> THEN <<>>
      ELSE IF IsBoxCount(Len(parts)) THEN ValidateAndFormat(parts)
      ELSE IF IsPolyCount(Len(parts)) THEN ValidateAndFormat(parts)
      ELSE <<>>

\* (each line put in front of fixed_lines)
RECURSIVE RepairLoopPrepend(_, _)
RepairLoopPrepend(all_annotations, fixed_lines) ==
  IF all_annotations = <<>> THEN fixed_lines
  ELSE RepairLoopPrepend(Tail(all_annotations),
                         ParseLine(Head(all_annotations)) \o fixed_lines)

\* for annotation_line in all_annotations: ... fixed_lines.append(...)
RECURSIVE RepairLoop(_, _)
RepairLoop(all_annotations, fixed_lines) ==
  IF all_annotations = <<>> THEN fixed_lines
  ELSE RepairLoop(Tail(all_annotations), fixed_lines \o ParseLine(Head(all_annotations)))

\* content.replace('\\n', '\n').split('\n')
AllAnnotations(content) == SplitOn(ReplaceEsc(content), "nl")

\* (the test of the first line alone, without len(lines) > 1)
AlreadyCorrectAnyLength(content) ==
  LET lines == SplitOn(content, "nl")
      first_line_parts == SplitWs(Strip(lines[1]))
  IN  IsBoxCount(Len(first_line_parts)) \/ IsPolyCount(Len(first_line_parts))

\* The "already in correct format" test on the stripped content
AlreadyCorrect(content) ==
  LET lines == SplitOn(content, "nl")
      first_line_parts == SplitWs(Strip(lines[1]))
  IN  /\ Len(lines) > 1
      /\ IsBoxCount(Len(first_line_parts)) \/ IsPolyCount(Len(first_line_parts))

\* (content = f.read())
ReadRaw(text) == text

\* content = f.read().strip()
ReadStripped(text) == Strip(text)

\* (the write-back made whatever fixed_lines holds)
HasFixedLinesAlways(fixed_lines) == TRUE

\* `if fixed_lines:` before the write-back
HasFixedLines(fixed_lines) == fixed_lines # <<>>

\* (the lines joined and ended by a literal backslash-n)
WriteBackEscaped(fixed_lines) == Join(fixed_lines, <<ESC>>) \o <<ESC>>

\* (no final line break)
WriteBackNoFinalNewline(fixed_lines) == Join(fixed_lines, <<NL>>)

\* f.write('\n'.join(fixed_lines) + '\n')
WriteBack(fixed_lines) == Join(fixed_lines, <<NL>>) \o <<NL>>

Result(ok, msg, n, wrote, disk) ==
  [ok |-> ok, msg |-> msg, n |-> n, wrote |-> wrote, disk |-> disk]

\* (no early return for a file in correct format, and the write-back opened
\* with 'a', so that the fixed lines follow the old text)
fix_label_format_reappend(text, mode) ==
  LET content     == ReadStripped(text)
      fixed_lines == RepairLoop(AllAnnotations(content), <<>>)
  IN  IF mode = "none" THEN Result(FALSE, "Error", 0, FALSE, text)
      ELSE IF content = <<>> THEN Result(FALSE, "Empty file", 0, FALSE, text)
      ELSE IF HasFixedLines(fixed_lines)
        THEN IF mode = "ro" THEN Result(FALSE, "Error", 0, FALSE, text)
             ELSE Result(TRUE, "Fixed", Len(fixed_lines), TRUE,
                         text \o WriteBack(fixed_lines))
      ELSE Result(FALSE, "No valid annotations found", 0, FALSE, text)

\* fix_label_format on a file holding `text` with access `mode`: the returned
\* (success, message), the n of "Fixed n annotations", and the file afterwards.
\* mode "none": open(.., 'r') raises; "ro": open(.., 'w') raises; "rw": neither.
\* Every exception is caught and returned as (False, "Error: ...").
fix_label_format(text, mode) ==
  LET content     == ReadStripped(text)
      fixed_lines == RepairLoop(AllAnnotations(content), <<>>)
  IN  IF mode = "none" THEN Result(FALSE, "Error", 0, FALSE, text)
      ELSE IF content = <<>> THEN Result(FALSE, "Empty file", 0, FALSE, text)
      ELSE IF AlreadyCorrect(content)
        THEN Result(TRUE, "Already correct format", 0, FALSE, text)
      ELSE IF HasFixedLines(fixed_lines)
        THEN IF mode = "ro" THEN Result(FALSE, "Error", 0, FALSE, text)
             ELSE Result(TRUE, "Fixed", Len(fixed_lines), TRUE, WriteBack(fixed_lines))
      ELSE Result(FALSE, "No valid annotations found", 0, FALSE, text)

(* ------------------------------------------------------------ label files *)
\* tokens written one blank apart
Line(tokens) == Join([i \in DOMAIN tokens |-> <<tokens[i]>>], <<SP>>)

\* Single annotation lines of every token count, with one class token and one
\* coordinate (the first or the last) taken from the lists below and every
\* other coordinate "0.5".
TokenCounts == 1..9
ClassToks ==
  { IntTok(0), IntTok(MaxClassId), IntTok(MaxClassId + 1), IntTok(-1),
    OddIntTok(7), DecTok(3 * Unit), NanTok, WordTok }
CoordToks ==
  { DecTok(0), DecTok(Unit), IntTok(1), IntTok(2), DecTok(Unit + 1), DecTok(-1),
    DecTok(1234567), DecTok(Unit - 4), Dec6Tok(5000000), NanTok, WordTok }
HalfTok == DecTok(5000000)

LineOf(n, cls, p, s) ==
  Line([i \in 1..n |-> IF i = 1 THEN cls ELSE IF i = p THEN s ELSE HalfTok])

SingleLines ==
  UNION { { LineOf(n, cls, p, s) : cls \in ClassToks, p \in {2, n}, s \in CoordToks } :
          n \in TokenCounts }

\* The records of multi-segment files: two boxes, a polygon, a box of class
\* 40, a line of four tokens, a blank segment.
BoxA  == Line(<<IntTok(10), DecTok(1000000), DecTok(2000000), DecTok(3000000), DecTok(4000000)>>)
BoxB  == Line(<<IntTok(12), Dec6Tok(5000000), Dec6Tok(5000000), Dec6Tok(1000000), Dec6Tok(1000000)>>)
PolyP == Line(<<IntTok(4), DecTok(200000), DecTok(4200000), DecTok(2800000),
                DecTok(4100000), DecTok(3100000), DecTok(4000000)>>)
BoxX  == Line(<<IntTok(MaxClassId + 1), DecTok(1000000), DecTok(2000000), DecTok(3000000), DecTok(4000000)>>)
Four  == Line(<<IntTok(3), HalfTok, HalfTok, HalfTok>>)
Blank == <<>>

ShortRecords == {BoxA, BoxB, PolyP, BoxX, Four, Blank}

\* What joins two records: a real line break, or the literal backslash-n
Seps == { <<NL>>, <<ESC>> }

\* What surrounds the records: nothing; a leading blank and a final line
\* break; a final literal backslash-n (as the mask converter writes it)
Pads == { << <<>>, <<>> >>, << <<SP>>, <<NL>> >>, << <<>>, <<ESC>> >> }

RECURSIVE Joined(_)
Joined(k) ==
  IF k = 1 THEN ShortRecords
  ELSE { c \o sep \o r : c \in Joined(k - 1), sep \in Seps, r \in ShortRecords }

Bodies == SingleLines \cup UNION { Joined(k) : k \in 1..MaxSegs }

Contents == { pad[1] \o b \o pad[2] : b \in Bodies, pad \in Pads }

Modes == {"rw", "ro", "none"}
Splits == <<"train", "val", "test">>

File(split, text, mode) == [split |-> split, text |-> text, mode |-> mode]

ZeroStats == [fixed |-> 0, already_correct |-> 0, errors |-> 0, empty |-> 0]

SplitNames == {Splits[i] : i \in DOMAIN Splits}

\* What verify_fixed_format prints for one split (nothing but "not found"
\* for a missing directory), before any verification has run
ZeroSplitReport ==
  [exists |-> FALSE, files |-> 0, valid_files |-> 0, total_objects |-> 0,
   bbox_count |-> 0, polygon_count |-> 0]
NoReport == [done |-> FALSE, seen |-> <<>>, per |-> [s \in SplitNames |-> ZeroSplitReport]]

\* No file unlinked and none renamed away; no script running; no matching
\* check printed
NothingGone == [deleted |-> {}, moved |-> {}]
NoMain == [prog |-> "none", at |-> "none", last |-> "none", has_issues |-> FALSE,
           choice |-> "", confirm |-> "", action |-> "", answer |-> ""]
NoImages == [root |-> FALSE, splits |-> {}, files |-> {}]
ZeroTypes == [bbox_files |-> 0, polygon_files |-> 0, mixed_files |-> 0, invalid_files |-> 0]
ZeroLabels == [valid |-> 0, empty |-> 0, corrupted |-> 0]
ConversionSplits == {"train", "val"}
ZeroConversion ==
  [done |-> FALSE, seen |-> <<>>, valid_labels |-> [s \in ConversionSplits |-> 0],
   total_objects |-> [s \in ConversionSplits |-> 0]]
NoAnalysis == [types |-> ZeroTypes, labels |-> ZeroLabels, conversion |-> ZeroConversion]
NoMasks == <<>>
NoClass == -1
NoLookup ==
  [promotion |-> "none", target |-> <<>>, done |-> FALSE, called |-> FALSE, class_id |-> NoClass]
Absent == "absent"
NoHome == [at |-> "none", settings |-> <<>>, backup |-> <<>>, orig |-> <<>>, found |-> 0]
ZeroMatch == [checked |-> FALSE, images |-> 0, labels |-> 0, matched |-> 0,
              unmatched_images |-> 0, unmatched_labels |-> 0]
NoMatch == [by |-> "none", per |-> [s \in SplitNames |-> ZeroMatch]]

(* --------------------------------------------------- one file, called alone *)
InitFile ==
  /\ \E c \in Contents, m \in Modes : fs = [id \in {1} |-> File("train", c, m)]
  /\ dirs = [root |-> TRUE, splits |-> {"train"}]
  /\ hist = [id \in {1} |-> <<>>]
  /\ pc = "idle"
  /\ splitIdx = 0
  /\ todo = {}
  /\ stats = ZeroStats
  /\ report = NoReport
  /\ imgs = NoImages
  /\ gone = NothingGone
  /\ main = NoMain
  /\ match = NoMatch
  /\ analysis = NoAnalysis
  /\ masks = NoMasks
  /\ lookup = NoLookup
  /\ home = NoHome

\* What one call of fix_label_format on file f leaves: the file, and the
\* record of the call (the text before, the return value, the text after)
Call(f) ==
  LET r == fix_label_format(fs[f].text, fs[f].mode)
  IN  [before |-> fs[f].text, mode |-> fs[f].mode, ok |-> r.ok, msg |-> r.msg,
       n |-> r.n, wrote |-> r.wrote, after |-> r.disk]

CallFix(f) ==
  /\ pc = "idle"
  /\ Len(hist[f]) < MaxCalls
  /\ fs' = [fs EXCEPT ![f].text = Call(f).after]
  /\ hist' = [hist EXCEPT ![f] = Append(@, Call(f))]
  /\ UNCHANGED <<dirs, pc, splitIdx, todo, stats, report, imgs, gone, main, match, analysis, masks, lookup, home>>

Next == \E f \in DOMAIN fs : CallFix(f)

Spec == InitFile /\ [][Next]_vars

(* ----------------------------------------------------------- fix_all_labels *)
\* The kinds of file of a walked dataset: empty, blank, a box to format, two
\* lines in order, a box of class 40, two boxes joined by backslash-n, and an
\* unreadable and a read-only file.
WalkFiles ==
  << [text |-> <<>>, mode |-> "rw"],
     [text |-> <<SP, NL>>, mode |-> "rw"],
     [text |-> BoxA \o <<NL>>, mode |-> "rw"],
     [text |-> BoxB \o <<NL>> \o PolyP \o <<NL>>, mode |-> "rw"],
     [text |-> BoxX \o <<NL>>, mode |-> "rw"],
     [text |-> BoxA \o <<ESC>> \o BoxB \o <<ESC>>, mode |-> "rw"],
     [text |-> BoxA \o <<NL>>, mode |-> "none"],
     [text |-> BoxA \o <<ESC>> \o BoxB, mode |-> "ro"] >>

\* File number j of the Len(Splits) * Len(WalkFiles) combinations
WalkFile(j) ==
  LET kind == WalkFiles[((j - 1) % Len(WalkFiles)) + 1]
  IN  File(Splits[((j - 1) \div Len(WalkFiles)) + 1], kind.text, kind.mode)

\* A dataset: up to MaxFiles files (listed without regard to order, the walk
\* chooses its own), in split directories that exist; or no labels directory.
InitWalk ==
  /\ \E n \in 0..MaxFiles :
       \E pick \in [1..n -> 1..(Len(Splits) * Len(WalkFiles))] :
         /\ \A i \in 1..(n - 1) : pick[i] <= pick[i + 1]
         /\ fs = [id \in 1..n |-> WalkFile(pick[id])]
  /\ \E root \in BOOLEAN, ds \in SUBSET {Splits[i] : i \in DOMAIN Splits} :
       /\ \A id \in DOMAIN fs : root /\ fs[id].split \in ds
       /\ ~root => ds = {}
       /\ dirs = [root |-> root, splits |-> ds]
  /\ hist = [id \in DOMAIN fs |-> <<>>]
  /\ pc = "start"
  /\ splitIdx = 0
  /\ todo = {}
  /\ stats = ZeroStats
  /\ report = NoReport
  /\ imgs = NoImages
  /\ gone = NothingGone
  /\ main = NoMain
  /\ match = NoMatch
  /\ analysis = NoAnalysis
  /\ masks = NoMasks
  /\ lookup = NoLookup
  /\ home = NoHome

\* stats = {...}; `if not labels_dir.exists(): return` comes first
Start ==
  /\ pc = "start"
  /\ stats' = ZeroStats
  /\ IF dirs.root THEN pc' = "split" /\ splitIdx' = 1
                  ELSE pc' = "done" /\ splitIdx' = splitIdx
  /\ UNCHANGED <<fs, dirs, hist, todo, report, imgs, gone, main, match, analysis, masks, lookup, home>>

\* for split in ['train', 'val', 'test']: a missing directory is skipped,
\* label_files = list(label_dir.glob('*.txt'))
EnterSplit ==
  /\ pc = "split"
  /\ splitIdx <= Len(Splits)
  /\ IF Splits[splitIdx] \in dirs.splits
       THEN /\ todo' = {id \in DOMAIN fs : fs[id].split = Splits[splitIdx]}
            /\ pc' = "files"
            /\ splitIdx' = splitIdx
       ELSE /\ splitIdx' = splitIdx + 1
            /\ UNCHANGED <<pc, todo>>
  /\ UNCHANGED <<fs, dirs, hist, stats, report, imgs, gone, main, match, analysis, masks, lookup, home>>

\* The counter one return value of fix_label_format increments
Counted(r) ==
  IF r.ok
    THEN IF r.msg = "Already correct format" THEN "already_correct" ELSE "fixed"
    ELSE IF r.msg = "Empty file" THEN "empty" ELSE "errors"

\* (an exception of fix_label_format ends the walk)
ProcessFileAbortOnError(f) ==
  /\ pc = "files"
  /\ f \in todo
  /\ IF Call(f).msg = "Error"
       THEN /\ pc' = "done"
            /\ UNCHANGED <<fs, hist, stats, todo>>
       ELSE /\ fs' = [fs EXCEPT ![f].text = Call(f).after]
            /\ hist' = [hist EXCEPT ![f] = Append(@, Call(f))]
            /\ stats' = [stats EXCEPT ![Counted(Call(f))] = @ + 1]
            /\ todo' = todo \ {f}
            /\ pc' = pc
  /\ UNCHANGED <<dirs, splitIdx, report, imgs, gone, main, match, analysis, masks, lookup, home>>

\* for label_file in label_files: one pass of the body, in the order of the
\* directory listing (any order)
ProcessFile(f) ==
  /\ pc = "files"
  /\ f \in todo
  /\ fs' = [fs EXCEPT ![f].text = Call(f).after]
  /\ hist' = [hist EXCEPT ![f] = Append(@, Call(f))]
  /\ stats' = [stats EXCEPT ![Counted(Call(f))] = @ + 1]
  /\ todo' = todo \ {f}
  /\ UNCHANGED <<dirs, pc, splitIdx, report, imgs, gone, main, match, analysis, masks, lookup, home>>

\* the list of the split is exhausted: on to the next split
LeaveSplit ==
  /\ pc = "files"
  /\ todo = {}
  /\ pc' = "split"
  /\ splitIdx' = splitIdx + 1
  /\ UNCHANGED <<fs, dirs, hist, todo, stats, report, imgs, gone, main, match, analysis, masks, lookup, home>>

\* the SUMMARY printed after the last split
Summary ==
  /\ pc = "split"
  /\ splitIdx > Len(Splits)
  /\ pc' = "done"
  /\ UNCHANGED <<fs, dirs, hist, splitIdx, todo, stats, report, imgs, gone, main, match, analysis, masks, lookup, home>>

NextWalk ==
  \/ Start
  \/ EnterSplit
  \/ \E f \in DOMAIN fs : ProcessFile(f)
  \/ LeaveSplit
  \/ Summary

SpecWalk == InitWalk /\ [][NextWalk]_vars

(* ------------------------------------------------------ verify_fixed_format *)
MaxVerifySegs == 2    \* segments of a multi-segment file that is verified

\* f.readlines(): the lines of the text; no line follows a final line break
ReadLines(text) ==
  LET pieces == SplitOn(text, "nl")
  IN  IF pieces[Len(pieces)] = <<>> THEN SubSeq(pieces, 1, Len(pieces) - 1) ELSE pieces

\* The range test of the two try blocks: "ok", or "invalid" after a
\* ValueError or a value out of range
VerifyParts(parts) ==
  LET cls    == IntParse(parts[1])
      coords == [i \in 1..(Len(parts) - 1) |-> FloatParse(parts[i + 1])]
  IN  IF ~cls.ok \/ \E i \in DOMAIN coords : ~coords[i].ok THEN "invalid"
      ELSE IF ~(0 <= cls.val /\ cls.val <= MaxClassId)
              \/ ~(\A i \in DOMAIN coords : InUnitInterval(coords[i])) THEN "invalid"
      ELSE "ok"

\* (a blank line makes the file invalid)
VerifyLineStrictBlank(raw) ==
  LET line  == Strip(raw)
      parts == SplitWs(line)
  IN  IF IsBoxCount(Len(parts))
        THEN IF VerifyParts(parts) = "ok" THEN "bbox" ELSE "invalid"
      ELSE IF IsPolyCount(Len(parts))
        THEN IF VerifyParts(parts) = "ok" THEN "polygon" ELSE "invalid"
      ELSE "invalid"

\* One pass of the loop over lines: "skip" for a blank line, "bbox" or
\* "polygon" for a counted line, "invalid" where the code sets file_valid =
\* False and breaks
VerifyLine(raw) ==
  LET line  == Strip(raw)
      parts == SplitWs(line)
  IN  IF line = <<>> THEN "skip"
      ELSE IF IsBoxCount(Len(parts))
        THEN IF VerifyParts(parts) = "ok" THEN "bbox" ELSE "invalid"
      ELSE IF IsPolyCount(Len(parts))
        THEN IF VerifyParts(parts) = "ok" THEN "polygon" ELSE "invalid"
      ELSE "invalid"

\* (a rejected line passed over instead of ending the scan)
RECURSIVE VerifyScanSkipInvalid(_, _)
VerifyScanSkipInvalid(lines, acc) ==
  IF lines = <<>> THEN acc
  ELSE LET v == VerifyLine(Head(lines)) IN
       IF v = "bbox"
         THEN VerifyScanSkipInvalid(Tail(lines),
                                    [acc EXCEPT !.file_objects = @ + 1, !.bbox = @ + 1])
       ELSE IF v = "polygon"
         THEN VerifyScanSkipInvalid(Tail(lines),
                                    [acc EXCEPT !.file_objects = @ + 1, !.polygon = @ + 1])
       ELSE VerifyScanSkipInvalid(Tail(lines), acc)

\* for line in lines: ... with its break; acc holds file_valid, file_objects
\* and what the pass adds to bbox_count and polygon_count
RECURSIVE VerifyScan(_, _)
VerifyScan(lines, acc) ==
  IF lines = <<>> THEN acc
  ELSE LET v == VerifyLine(Head(lines)) IN
       IF v = "invalid" THEN [acc EXCEPT !.file_valid = FALSE]
       ELSE IF v = "bbox"
         THEN VerifyScan(Tail(lines), [acc EXCEPT !.file_objects = @ + 1, !.bbox = @ + 1])
       ELSE IF v = "polygon"
         THEN VerifyScan(Tail(lines), [acc EXCEPT !.file_objects = @ + 1, !.polygon = @ + 1])
       ELSE VerifyScan(Tail(lines), acc)

\* The body of `for label_file in label_files`: what one file adds to
\* valid_files, total_objects, bbox_count and polygon_count.  An unreadable
\* file and a file without lines add nothing.
VerifyFile(text, mode) ==
  LET scan == VerifyScan(ReadLines(text),
                         [file_valid |-> TRUE, file_objects |-> 0, bbox |-> 0, polygon |-> 0])
      counted == scan.file_valid /\ scan.file_objects > 0
  IN  IF mode = "none" \/ text = <<>>
        THEN [valid |-> FALSE, objects |-> 0, bbox |-> 0, polygon |-> 0]
        ELSE [valid |-> counted,
              objects |-> IF counted THEN scan.file_objects ELSE 0,
              bbox |-> scan.bbox, polygon |-> scan.polygon]

\* The sum of val[f] over the files ids
RECURSIVE SumOver(_, _)
SumOver(ids, val) ==
  IF ids = {} THEN 0
  ELSE LET f == CHOOSE x \in ids : TRUE IN val[f] + SumOver(ids \ {f}, val)

\* The figures printed for one split
VerifySplit(split) ==
  LET label_files == {id \in DOMAIN fs : fs[id].split = split}
      one == [f \in label_files |-> VerifyFile(fs[f].text, fs[f].mode)]
  IN  IF split \notin dirs.splits THEN ZeroSplitReport
      ELSE [exists |-> TRUE, files |-> Cardinality(label_files),
            valid_files |-> SumOver(label_files, [f \in label_files |-> IF one[f].valid THEN 1 ELSE 0]),
            total_objects |-> SumOver(label_files, [f \in label_files |-> one[f].objects]),
            bbox_count |-> SumOver(label_files, [f \in label_files |-> one[f].bbox]),
            polygon_count |-> SumOver(label_files, [f \in label_files |-> one[f].polygon])]

\* verify_fixed_format: it opens every label file for reading only, and
\* prints nothing but "not found" without a labels directory
VerifyFixedFormat ==
  /\ main.prog = "none"
  /\ pc = "idle"
  /\ dirs.root
  /\ report' = [done |-> TRUE, seen |-> [id \in DOMAIN fs |-> fs[id].text],
                per |-> [s \in SplitNames |-> VerifySplit(s)]]
  /\ UNCHANGED <<fs, dirs, hist, pc, splitIdx, todo, stats, imgs, gone, main, match, analysis, masks, lookup, home>>

\* One label file, repaired and verified in any order
VerifyContents ==
  { pad[1] \o b \o pad[2] :
      b \in SingleLines \cup UNION { Joined(k) : k \in 1..MaxVerifySegs }, pad \in Pads }

InitVerify ==
  /\ \E c \in VerifyContents, m \in Modes : fs = [id \in {1} |-> File("train", c, m)]
  /\ dirs = [root |-> TRUE, splits |-> {"train"}]
  /\ hist = [id \in {1} |-> <<>>]
  /\ pc = "idle"
  /\ splitIdx = 0
  /\ todo = {}
  /\ stats = ZeroStats
  /\ report = NoReport
  /\ imgs = NoImages
  /\ gone = NothingGone
  /\ main = NoMain
  /\ match = NoMatch
  /\ analysis = NoAnalysis
  /\ masks = NoMasks
  /\ lookup = NoLookup
  /\ home = NoHome

NextVerify ==
  \/ \E f \in DOMAIN fs : CallFix(f)
  \/ VerifyFixedFormat

SpecVerify == InitVerify /\ [][NextVerify]_vars

(* ------------------------------------------ a dataset of labels and images *)
MaxDataFiles == 2     \* label files of a dataset with images
MaxStems == 2         \* stems the image files of a dataset may have

\* Label file f is "<f>.txt": label_file.stem
Stem(f) == f

\* The name of a file of a split directory
Name(split, stem, ext) == [split |-> split, stem |-> stem, ext |-> ext]
LabelName(f) == Name(fs[f].split, Stem(f), "txt")

\* '*.png', '*.jpg', '*.jpeg'
ImageExts == {"png", "jpg", "jpeg"}

\* The image files of one stem: none; one; two with the same stem; one in
\* another split
ImagePatterns ==
  { {},
    { <<"train", "png">> },
    { <<"train", "jpg">>, <<"train", "jpeg">> },
    { <<"val", "png">> } }

\* cityscapes/labels/train/*.txt and cityscapes/images/{train,val}/*; the
\* test directories are missing.  Or no dataset at all.
InitData ==
  /\ \/ /\ \E n \in 0..MaxDataFiles :
             \E pick \in [1..n -> 1..Len(WalkFiles)] :
               /\ \A i \in 1..(n - 1) : pick[i] <= pick[i + 1]
               /\ fs = [id \in 1..n |->
                          File("train", WalkFiles[pick[id]].text, WalkFiles[pick[id]].mode)]
        /\ dirs = [root |-> TRUE, splits |-> {"train", "val"}]
        /\ \E pat \in [1..MaxStems -> ImagePatterns] :
             imgs = [root |-> TRUE, splits |-> {"train", "val"},
                     files |-> UNION { { Name(p[1], st, p[2]) : p \in pat[st] } :
                                       st \in 1..MaxStems }]
     \/ /\ fs = <<>>
        /\ dirs = [root |-> FALSE, splits |-> {}]
        /\ imgs = NoImages
  /\ hist = [id \in DOMAIN fs |-> <<>>]
  /\ pc = "idle"
  /\ splitIdx = 0
  /\ todo = {}
  /\ stats = ZeroStats
  /\ report = NoReport
  /\ gone = NothingGone
  /\ main = NoMain
  /\ match = NoMatch
  /\ analysis = NoAnalysis
  /\ masks = NoMasks
  /\ lookup = NoLookup
  /\ home = NoHome

\* The splits whose labels directory exists
LabelSplits == IF dirs.root THEN dirs.splits ELSE {}
\* The splits whose images directory exists
ImageSplits == IF imgs.root THEN imgs.splits ELSE {}

\* list(label_dir.glob('*.txt'))
LabelFiles(split) == {f \in DOMAIN fs : fs[f].split = split}
\* the globs '*.png', '*.jpg', '*.jpeg' of img_dir
ImageFiles(split) == {i \in imgs.files : i.split = split /\ i.ext \in ImageExts}

(* ---------------------------------------------------------- diagnose.py *)
\* {f.stem for f in image_files}, {f.stem for f in label_files}
ImageStems(split) == {i.stem : i \in ImageFiles(split)}
LabelStems(split) == {Stem(f) : f \in LabelFiles(split)}

\* One pass of `for split in ['train', 'val', 'test']`: nothing after a
\* missing images directory, the matching figures only with label files
DiagnoseSplit(split) ==
  IF split \notin ImageSplits THEN ZeroMatch
  ELSE IF split \in LabelSplits /\ LabelFiles(split) # {}
    THEN [checked |-> TRUE,
          images |-> Cardinality(ImageFiles(split)),
          labels |-> Cardinality(LabelFiles(split)),
          matched |-> Cardinality(ImageStems(split) \cap LabelStems(split)),
          unmatched_images |-> Cardinality(ImageStems(split) \ LabelStems(split)),
          unmatched_labels |-> Cardinality(LabelStems(split) \ ImageStems(split))]
  ELSE [ZeroMatch EXCEPT !.images = Cardinality(ImageFiles(split)),
                         !.labels = Cardinality(LabelFiles(split))]

\* diagnose_dataset: it reads directory listings and one sample label
DiagnoseDataset ==
  /\ main = NoMain
  /\ pc = "idle"
  /\ dirs.root \/ imgs.root
  /\ match' = [by |-> "diagnose_dataset", per |-> [s \in SplitNames |-> DiagnoseSplit(s)]]
  /\ main' = [main EXCEPT !.prog = "diagnose", !.at = "end", !.last = "diagnose_dataset"]
  /\ UNCHANGED <<fs, dirs, hist, pc, splitIdx, todo, stats, report, imgs, gone, analysis, masks, lookup, home>>

(* -------------------------------------------------------- label_issue_fix.py *)
\* analyze_empty_labels, `for line in lines`: True where is_valid stays True
AnalyzeLineValid(line) ==
  LET parts  == SplitWs(Strip(line))
      cls    == IntParse(parts[1])
      coords == [i \in 1..(Len(parts) - 1) |-> FloatParse(parts[i + 1])]
  IN  IF IsBoxCount(Len(parts)) \/ IsPolyCount(Len(parts))
        THEN /\ cls.ok
             /\ \A i \in DOMAIN coords : coords[i].ok
             /\ ~(cls.val < 0 \/ cls.val >= MaxClassId + 1)
             /\ ~(\E i \in DOMAIN coords :
                    ~coords[i].nan /\ (coords[i].u < 0 \/ coords[i].u > Unit))
        ELSE FALSE

\* fix_empty_labels, `for line in lines`: True where is_valid stays True
FixLineValid(line) ==
  LET parts  == SplitWs(Strip(line))
      cls    == IntParse(parts[1])
      coords == [i \in 1..(Len(parts) - 1) |-> FloatParse(parts[i + 1])]
  IN  IF IsBoxCount(Len(parts)) \/ IsPolyCount(Len(parts))
        THEN /\ cls.ok
             /\ \A i \in DOMAIN coords : coords[i].ok
             /\ ~(\/ cls.val < 0
                  \/ cls.val >= MaxClassId + 1
                  \/ \E i \in DOMAIN coords :
                       ~coords[i].nan /\ (coords[i].u < 0 \/ coords[i].u > Unit))
        ELSE FALSE

\* content.split('\n') without the lines that are blank once stripped
ContentLines(content) ==
  SelectSeq(SplitOn(content, "nl"), LAMBDA l : Strip(l) # <<>>)

\* The list analyze_empty_labels appends a label file to; a file that cannot
\* be read goes to corrupted_files
AnalyzeFile(text, mode) ==
  LET content == Strip(text) IN
  IF mode = "none" THEN "corrupted"
  ELSE IF content = <<>> THEN "empty"
  ELSE IF \A i \in DOMAIN ContentLines(content) : AnalyzeLineValid(ContentLines(content)[i])
    THEN "valid"
  ELSE "corrupted"

\* The list fix_empty_labels appends a label file to ("valid": to none); a
\* file that cannot be read goes to empty_files
FixFile(text, mode) ==
  LET content == Strip(text) IN
  IF mode = "none" THEN "empty"
  ELSE IF content = <<>> THEN "empty"
  ELSE IF \A i \in DOMAIN ContentLines(content) : FixLineValid(ContentLines(content)[i])
    THEN "valid"
  ELSE "corrupted"

\* total_valid, total_empty, total_corrupted of analyze_empty_labels
AnalyzeTotals ==
  LET found == IF dirs.root /\ imgs.root
                 THEN {f \in DOMAIN fs : fs[f].split \in dirs.splits} ELSE {}
      of(kind) == Cardinality({f \in found : AnalyzeFile(fs[f].text, fs[f].mode) = kind})
  IN  [valid |-> of("valid"), empty |-> of("empty"), corrupted |-> of("corrupted")]

\* problematic_files = empty_files + corrupted_files, over the splits that
\* have both directories
ProblematicFiles ==
  {f \in DOMAIN fs : /\ fs[f].split \in LabelSplits \cap ImageSplits
                     /\ FixFile(fs[f].text, fs[f].mode) # "valid"}

\* img_dir.glob(f"{img_name}.{ext[2:]}") for the three extensions
ImagesOf(f) ==
  {i \in imgs.files : i.split = fs[f].split /\ i.stem = Stem(f) /\ i.ext \in ImageExts}

\* One split of verify_dataset's MATCHING CHECK, with the counts printed
\* before it
VerifyDatasetSplit(split) ==
  IF split \notin ImageSplits \/ split \notin LabelSplits THEN ZeroMatch
  ELSE [checked |-> TRUE,
        images |-> Cardinality(ImageFiles(split)),
        labels |-> Cardinality({f \in LabelFiles(split) :
                                  fs[f].mode # "none" /\ Strip(fs[f].text) # <<>>}),
        matched |-> Cardinality(ImageStems(split) \cap LabelStems(split)),
        unmatched_images |-> Cardinality(ImageStems(split) \ LabelStems(split)),
        unmatched_labels |-> 0]

\* What the user may type at a prompt, and what .strip() and
\* .lower().strip() make of it
TypedChoices == {"1", " 1", "2", "3", "4", ""}
TypedAnswers == {"y", "Y", " y ", "n", "yes", ""}
StripTyped(t) == IF t = " 1" THEN "1" ELSE t
LowerStripTyped(t) == IF t \in {"Y", " y "} THEN "y" ELSE t

\* has_issues = analyze_empty_labels(): the first statement of __main__
AnalyzeEmptyLabels ==
  /\ main = NoMain
  /\ pc = "idle"
  /\ analysis' = [analysis EXCEPT !.labels = AnalyzeTotals]
  /\ LET has_issues == AnalyzeTotals.empty > 0 \/ AnalyzeTotals.corrupted > 0
     IN  main' = [main EXCEPT !.prog = "label_issue_fix", !.last = "analyze_empty_labels",
                              !.has_issues = has_issues,
                              !.at = IF has_issues THEN "choice" ELSE "verify"]
  /\ UNCHANGED <<fs, dirs, hist, pc, splitIdx, todo, stats, report, imgs, gone, match, masks, lookup, home>>

\* choice = input("Select option (1-4): ").strip()
SelectOption(typed) ==
  /\ main.prog = "label_issue_fix"
  /\ main.at = "choice"
  /\ LET choice == StripTyped(typed)
     IN  main' = [main EXCEPT !.last = "input", !.choice = choice,
                              !.action = IF choice = "2" THEN "skip"
                                         ELSE IF choice = "3" THEN "manual" ELSE @,
                              !.at = IF choice = "1" THEN "confirm"
                                     ELSE IF choice \in {"2", "3"} THEN "fix" ELSE "end"]
  /\ UNCHANGED <<fs, dirs, hist, pc, splitIdx, todo, stats, report, imgs, gone, match, analysis, masks, lookup, home>>

\* (option 1 removes without asking)
ConfirmDeleteIgnored(typed) ==
  /\ main.prog = "label_issue_fix"
  /\ main.at = "confirm"
  /\ main' = [main EXCEPT !.last = "input", !.confirm = LowerStripTyped(typed),
                          !.action = "remove", !.at = "fix"]
  /\ UNCHANGED <<fs, dirs, hist, pc, splitIdx, todo, stats, report, imgs, gone, match, analysis, masks, lookup, home>>

\* confirm = input("This will DELETE files. Continue? (y/N): ").lower().strip()
ConfirmDelete(typed) ==
  /\ main.prog = "label_issue_fix"
  /\ main.at = "confirm"
  /\ LET confirm == LowerStripTyped(typed)
     IN  main' = [main EXCEPT !.last = "input", !.confirm = confirm,
                              !.action = IF confirm = "y" THEN "remove" ELSE @,
                              !.at = IF confirm = "y" THEN "fix" ELSE "end"]
  /\ UNCHANGED <<fs, dirs, hist, pc, splitIdx, todo, stats, report, imgs, gone, match, analysis, masks, lookup, home>>

\* (the images of a problematic label taken from every split)
TakeProblematicAnySplit(action) ==
  LET labels == ProblematicFiles
      taken  == {LabelName(f) : f \in labels}
                  \cup {i \in imgs.files : i.ext \in ImageExts /\ \E f \in labels : i.stem = Stem(f)}
  IN  IF action \in {"remove", "skip"}
        THEN /\ fs' = [f \in DOMAIN fs \ labels |-> fs[f]]
             /\ imgs' = [imgs EXCEPT !.files = @ \ taken]
             /\ gone' = IF action = "remove"
                          THEN [gone EXCEPT !.deleted = @ \cup taken]
                          ELSE [gone EXCEPT !.moved = @ \cup taken]
        ELSE UNCHANGED <<fs, imgs, gone>>

\* The body of fix_empty_labels: 'remove' unlinks every problematic label
\* file and the images of its stem, 'skip' renames them into
\* <split>_problematic, 'manual' lists them
TakeProblematic(action) ==
  LET labels == ProblematicFiles
      taken  == {LabelName(f) : f \in labels} \cup UNION {ImagesOf(f) : f \in labels}
  IN  IF action \in {"remove", "skip"}
        THEN /\ fs' = [f \in DOMAIN fs \ labels |-> fs[f]]
             /\ imgs' = [imgs EXCEPT !.files = @ \ taken]
             /\ gone' = IF action = "remove"
                          THEN [gone EXCEPT !.deleted = @ \cup taken]
                          ELSE [gone EXCEPT !.moved = @ \cup taken]
        ELSE UNCHANGED <<fs, imgs, gone>>

\* fix_empty_labels(action=...) as __main__ calls it
FixEmptyLabels ==
  /\ main.prog = "label_issue_fix"
  /\ main.at = "fix"
  /\ TakeProblematic(main.action)
  /\ main' = [main EXCEPT !.last = "fix_empty_labels",
                          !.at = IF main.action = "manual" THEN "end" ELSE "verify"]
  /\ UNCHANGED <<dirs, hist, pc, splitIdx, todo, stats, report, match, analysis, masks, lookup, home>>

\* verify_dataset(): after a fix, without issues, or on its own
VerifyDataset ==
  /\ \/ main.prog = "label_issue_fix" /\ main.at = "verify"
     \/ main = NoMain /\ pc = "idle"
  /\ match' = [by |-> "verify_dataset",
               per |-> [s \in SplitNames |-> VerifyDatasetSplit(s)]]
  /\ main' = [main EXCEPT !.prog = IF @ = "none" THEN "verify_dataset" ELSE @,
                          !.last = "verify_dataset", !.at = "end"]
  /\ UNCHANGED <<fs, dirs, hist, pc, splitIdx, todo, stats, report, imgs, gone, analysis, masks, lookup, home>>

(* ------------------------- label_issue_fix.py, its functions called directly *)
MaxIssueFiles == 2    \* label files of a dataset given to fix_empty_labels

\* Label files: empty, blank, a box, a box with a nan coordinate, a box of
\* class 40, two boxes joined by backslash-n, an unreadable file, and a box
\* and a polygon on two lines
IssueFiles ==
  << [text |-> <<>>, mode |-> "rw"],
     [text |-> <<SP, NL>>, mode |-> "rw"],
     [text |-> BoxA \o <<NL>>, mode |-> "rw"],
     [text |-> LineOf(BoxTokens, IntTok(0), 2, NanTok) \o <<NL>>, mode |-> "rw"],
     [text |-> BoxX \o <<NL>>, mode |-> "rw"],
     [text |-> BoxA \o <<ESC>> \o BoxB \o <<ESC>>, mode |-> "rw"],
     [text |-> BoxA \o <<NL>>, mode |-> "none"],
     [text |-> BoxB \o <<NL>> \o PolyP \o <<NL>>, mode |-> "rw"] >>

\* File number j of the combinations of train/val and IssueFiles
IssueFile(j) ==
  LET kind == IssueFiles[((j - 1) % Len(IssueFiles)) + 1]
  IN  File(Splits[((j - 1) \div Len(IssueFiles)) + 1], kind.text, kind.mode)

\* The image files beside them
IssueImages ==
  { {},
    { Name("train", 1, "png") },
    { Name("train", 1, "jpg"), Name("train", 1, "jpeg"), Name("train", 2, "png") },
    { Name("val", 1, "png"), Name("train", 2, "jpg") },
    { Name("val", 1, "png"), Name("val", 2, "jpeg"), Name("train", 1, "png") },
    { Name("train", 3, "png"), Name("val", 3, "png") } }

\* labels/train and labels/val exist, images/val may be missing.  Either up
\* to MaxIssueFiles label files of the kinds above, or one label file of a
\* single line.
InitIssue ==
  /\ \/ /\ \E n \in 0..MaxIssueFiles :
             \E pick \in [1..n -> 1..(2 * Len(IssueFiles))] :
               /\ \A i \in 1..(n - 1) : pick[i] <= pick[i + 1]
               /\ fs = [id \in 1..n |-> IssueFile(pick[id])]
        /\ \E files \in IssueImages, ds \in {{"train", "val"}, {"train"}} :
             imgs = [root |-> TRUE, splits |-> ds, files |-> {i \in files : i.split \in ds}]
     \/ /\ \E line \in SingleLines :
             fs = [id \in {1} |-> File("train", line \o <<NL>>, "rw")]
        /\ imgs = [root |-> TRUE, splits |-> {"train", "val"},
                   files |-> {Name("train", 1, "png")}]
  /\ dirs = [root |-> TRUE, splits |-> {"train", "val"}]
  /\ hist = [id \in DOMAIN fs |-> <<>>]
  /\ pc = "idle"
  /\ splitIdx = 0
  /\ todo = {}
  /\ stats = ZeroStats
  /\ report = NoReport
  /\ gone = NothingGone
  /\ main = NoMain
  /\ match = NoMatch
  /\ analysis = NoAnalysis
  /\ masks = NoMasks
  /\ lookup = NoLookup
  /\ home = NoHome

\* analyze_empty_labels(), called on its own
CallAnalyzeEmptyLabels ==
  /\ main.prog \in {"none", "calls"}
  /\ pc = "idle"
  /\ analysis' = [analysis EXCEPT !.labels = AnalyzeTotals]
  /\ main' = [main EXCEPT !.prog = "calls", !.last = "analyze_empty_labels",
                          !.has_issues = AnalyzeTotals.empty > 0 \/ AnalyzeTotals.corrupted > 0]
  /\ UNCHANGED <<fs, dirs, hist, pc, splitIdx, todo, stats, report, imgs, gone, match, masks, lookup, home>>

\* fix_empty_labels(action=...), called on its own
CallFixEmptyLabels(action) ==
  /\ main.prog \in {"none", "calls"}
  /\ pc = "idle"
  /\ TakeProblematic(action)
  /\ main' = [main EXCEPT !.prog = "calls", !.last = "fix_empty_labels", !.action = action]
  /\ UNCHANGED <<dirs, hist, pc, splitIdx, todo, stats, report, match, analysis, masks, lookup, home>>

NextIssue ==
  \/ CallAnalyzeEmptyLabels
  \/ \E action \in {"remove", "skip", "manual"} : CallFixEmptyLabels(action)

SpecIssue == InitIssue /\ [][NextIssue]_vars

(* ------------------------------------------- label_format_fix.py, __main__ *)
\* has_bbox / has_polygon of one file, and the counter it adds to ("none"
\* for a file without lines)
DetectFile(text, mode) ==
  LET lines == ReadLines(text)
      count(i) == Len(SplitWs(Strip(lines[i])))
      has_bbox == \E i \in DOMAIN lines : IsBoxCount(count(i))
      has_polygon == \E i \in DOMAIN lines : ~IsBoxCount(count(i)) /\ IsPolyCount(count(i))
  IN  IF mode = "none" THEN "invalid_files"
      ELSE IF text = <<>> THEN "none"
      ELSE IF has_bbox /\ has_polygon THEN "mixed_files"
      ELSE IF has_bbox THEN "bbox_files"
      ELSE IF has_polygon THEN "polygon_files"
      ELSE "invalid_files"

\* The ANNOTATION TYPE SUMMARY
DetectTypes ==
  LET of(kind) == Cardinality({f \in DOMAIN fs : /\ fs[f].split \in LabelSplits
                                                 /\ DetectFile(fs[f].text, fs[f].mode) = kind})
  IN  [bbox_files |-> of("bbox_files"), polygon_files |-> of("polygon_files"),
       mixed_files |-> of("mixed_files"), invalid_files |-> of("invalid_files")]

\* detect_annotation_type(), then manual_fix_example(), which prints a
\* fixed example and touches no file
DetectAnnotationType ==
  /\ main = NoMain
  /\ pc = "idle"
  /\ analysis' = [analysis EXCEPT !.types = DetectTypes]
  /\ main' = [main EXCEPT !.prog = "label_format_fix", !.last = "detect_annotation_type",
                          !.at = "verify"]
  /\ UNCHANGED <<fs, dirs, hist, pc, splitIdx, todo, stats, report, imgs, gone, match, masks, lookup, home>>

\* What verify_fixed_format prints
VerifyReport ==
  IF dirs.root
    THEN [done |-> TRUE, seen |-> [id \in DOMAIN fs |-> fs[id].text],
          per |-> [s \in SplitNames |-> VerifySplit(s)]]
    ELSE [NoReport EXCEPT !.done = TRUE]

\* verify_fixed_format() of __main__: the status check before the question,
\* and the check after fix_all_labels
MainVerify ==
  /\ main.prog = "label_format_fix"
  /\ \/ main.at = "verify"
     \/ main.at = "fixing" /\ pc = "done"
  /\ report' = VerifyReport
  /\ main' = [main EXCEPT !.last = "verify_fixed_format",
                          !.at = IF @ = "verify" THEN "ask" ELSE "end"]
  /\ UNCHANGED <<fs, dirs, hist, pc, splitIdx, todo, stats, imgs, gone, match, analysis, masks, lookup, home>>

\* (fix_all_labels whatever the answer)
AskFixAlways(typed) ==
  /\ main.prog = "label_format_fix"
  /\ main.at = "ask"
  /\ main' = [main EXCEPT !.last = "input", !.answer = LowerStripTyped(typed), !.at = "fixing"]
  /\ pc' = "start"
  /\ UNCHANGED <<fs, dirs, hist, splitIdx, todo, stats, report, imgs, gone, match, analysis, masks, lookup, home>>

\* response = input("Fix the label format? (y/N): ").lower().strip();
\* fix_all_labels() starts only after 'y'
AskFix(typed) ==
  /\ main.prog = "label_format_fix"
  /\ main.at = "ask"
  /\ LET response == LowerStripTyped(typed)
     IN  /\ main' = [main EXCEPT !.last = "input", !.answer = response,
                                 !.at = IF response = "y" THEN "fixing" ELSE "end"]
         /\ pc' = IF response = "y" THEN "start" ELSE pc
  /\ UNCHANGED <<fs, dirs, hist, splitIdx, todo, stats, report, imgs, gone, match, analysis, masks, lookup, home>>

\* The scripts run on a dataset: diagnose.py's report, label_issue_fix.py,
\* label_format_fix.py, or verify_dataset alone
NextTools ==
  \/ DiagnoseDataset
  \/ AnalyzeEmptyLabels
  \/ \E typed \in TypedChoices : SelectOption(typed)
  \/ \E typed \in TypedAnswers : ConfirmDelete(typed)
  \/ FixEmptyLabels
  \/ VerifyDataset
  \/ DetectAnnotationType
  \/ MainVerify
  \/ \E typed \in TypedAnswers : AskFix(typed)
  \/ Start
  \/ EnterSplit
  \/ \E f \in DOMAIN fs : ProcessFile(f)
  \/ LeaveSplit
  \/ Summary

SpecTools == InitData /\ [][NextTools]_vars

(* ------------------------------------------------ masks_to_yolo_covertor.py *)
MaxBoxes == 2         \* bounding boxes found in one mask
MaskWidth == 16       \* height, width = mask.shape[:2]
MaskHeight == 12

\* A contour's class id and cv2.boundingRect(contour)
Contour(class_id, x, y, w, h) == [class_id |-> class_id, x |-> x, y |-> y, w |-> w, h |-> h]

\* The class ids of the colour mapping: road, person, bicycle
MappedClasses == {0, 11, 18}

\* Rectangles inside the mask: the whole mask, one in the middle, one on the
\* right edge, one on the lower edge
Rects == { <<0, 0, MaskWidth, MaskHeight>>, <<3, 2, 9, 8>>,
           <<7, 0, MaskWidth - 7, MaskHeight>>, <<0, 4, 10, MaskHeight - 4>> }

Contours == { Contour(c, r[1], r[2], r[3], r[4]) : c \in MappedClasses, r \in Rects }

\* [class_id, x_center, y_center, box_width, box_height], normalised by the
\* mask's size, in units of 10^-7
YoloBox(c) ==
  [class_id   |-> c.class_id,
   x_center   |-> ((2 * c.x + c.w) * Unit) \div (2 * MaskWidth),
   y_center   |-> ((2 * c.y + c.h) * Unit) \div (2 * MaskHeight),
   box_width  |-> (c.w * Unit) \div MaskWidth,
   box_height |-> (c.h * Unit) \div MaskHeight]

\* f"{bbox[0]} {bbox[1]:.6f} {bbox[2]:.6f} {bbox[3]:.6f} {bbox[4]:.6f}\\n":
\* the five fields and a literal backslash-n
BoxText(b) ==
  Line(<<FormatInt(b.class_id), Format6(b.x_center), Format6(b.y_center),
         Format6(b.box_width), Format6(b.box_height)>>) \o <<ESC>>

\* (the file opened anew for every bbox: only the last one is left)
ConverterTextLastOnly(bboxes) ==
  IF bboxes = <<>> THEN <<>> ELSE BoxText(bboxes[Len(bboxes)])

\* with open(txt_file, 'w') as f: for bbox in bboxes: f.write(...)
RECURSIVE ConverterText(_)
ConverterText(bboxes) ==
  IF bboxes = <<>> THEN <<>> ELSE BoxText(Head(bboxes)) \o ConverterText(Tail(bboxes))

\* mask_to_bounding_boxes: one box per contour, in the order found
BoundingBoxes(contours) == [i \in DOMAIN contours |-> YoloBox(contours[i])]

\* One pass of `for mask_file in mask_files`: the mask with bounding boxes
\* is moved to the backup and its .txt file written; a mask without any is
\* skipped
ConvertMask(m) ==
  /\ pc = "idle"
  /\ m \in DOMAIN masks
  /\ m \notin DOMAIN fs
  /\ masks[m].todo
  /\ masks' = [masks EXCEPT ![m].todo = FALSE]
  /\ IF BoundingBoxes(masks[m].contours) # <<>>
       THEN fs' = [f \in DOMAIN fs \cup {m} |->
                     IF f = m THEN File("train", ConverterText(BoundingBoxes(masks[m].contours)), "rw")
                     ELSE fs[f]]
       ELSE fs' = fs
  /\ UNCHANGED <<dirs, hist, pc, splitIdx, todo, stats, report, imgs, gone, main, match, analysis,
                 lookup, home>>

\* labels/train/1.png, a mask with up to MaxBoxes contours of mapped colours
InitConvert ==
  /\ \E k \in 0..MaxBoxes : \E cs \in [1..k -> Contours] :
       masks = [m \in {1} |-> [contours |-> cs, todo |-> TRUE]]
  /\ fs = <<>>
  /\ dirs = [root |-> TRUE, splits |-> {"train"}]
  /\ hist = [id \in {1} |-> <<>>]
  /\ pc = "idle"
  /\ splitIdx = 0
  /\ todo = {}
  /\ stats = ZeroStats
  /\ report = NoReport
  /\ imgs = [root |-> TRUE, splits |-> {"train"}, files |-> {}]
  /\ gone = NothingGone
  /\ main = NoMain
  /\ match = NoMatch
  /\ analysis = NoAnalysis
  /\ lookup = NoLookup
  /\ home = NoHome

\* What verify_conversion adds to valid_labels and total_objects for one
\* .txt file: it splits the stripped text on the literal backslash-n
ConversionObjects(text, mode) ==
  LET lines == SplitOn(Strip(text), "esc")
  IN  IF mode = "none" \/ lines[1] = <<>>
        THEN [valid |-> 0, objects |-> 0]
        ELSE [valid |-> 1,
              objects |-> Len(SelectSeq(lines, LAMBDA l : Strip(l) # <<>>))]

\* verify_conversion: the counts of each split that has both directories
VerifyConversion ==
  /\ pc = "idle"
  /\ LET found(s) == {f \in DOMAIN fs : /\ fs[f].split = s
                                          /\ s \in LabelSplits \cap ImageSplits}
         one == [f \in DOMAIN fs |-> ConversionObjects(fs[f].text, fs[f].mode)]
     IN  analysis' = [analysis EXCEPT !.conversion =
                        [done |-> TRUE, seen |-> [f \in DOMAIN fs |-> fs[f].text],
                         valid_labels |->
                           [s \in ConversionSplits |-> SumOver(found(s), [f \in found(s) |-> one[f].valid])],
                         total_objects |->
                           [s \in ConversionSplits |-> SumOver(found(s), [f \in found(s) |-> one[f].objects])]]]
  /\ UNCHANGED <<fs, dirs, hist, pc, splitIdx, todo, stats, report, imgs, gone, main, match,
                 masks, lookup, home>>

\* The conversion, then the repair of what it wrote or its verification
NextConvert ==
  \/ \E m \in DOMAIN masks : ConvertMask(m)
  \/ \E f \in DOMAIN fs : CallFix(f)
  \/ VerifyConversion

SpecConvert == InitConvert /\ [][NextConvert]_vars

(* ============================================================ properties *)
\* The calls of fix_label_format made so far
Calls == UNION { { hist[f][i] : i \in DOMAIN hist[f] } : f \in DOMAIN hist }

\* The acceptance rule as the specification words it, on one segment
RuleClass(tok) == IntParse(tok).ok /\ IntParse(tok).val \in 0..39
RuleCoord(tok) ==
  FloatParse(tok).ok /\ ~FloatParse(tok).nan /\ FloatParse(tok).u \in 0..Unit
RuleBox(seg) ==
  LET t == SplitWs(seg)
  IN  Len(t) = 5 /\ RuleClass(t[1]) /\ \A i \in 2..5 : RuleCoord(t[i])
RulePoly(seg) ==
  LET t == SplitWs(seg)
  IN  /\ Len(t) % 2 = 1 /\ Len(t) >= 7
      /\ RuleClass(t[1]) /\ \A i \in 2..Len(t) : RuleCoord(t[i])
RuleAccept(seg) == RuleBox(seg) \/ RulePoly(seg)

\* The segments of a text once backslash-n counts as a line break
Segments(text) == SplitOn(ReplaceEsc(Strip(text)), "nl")
AcceptedSegments(text) == SelectSeq(Segments(text), RuleAccept)

\* The physical lines of a rewritten file (without the piece after the
\* final line break)
OutLines(text) ==
  LET pieces == SplitOn(text, "nl") IN SubSeq(pieces, 1, Len(pieces) - 1)

\* `line` holds the record of segment `seg`: the same class id and the
\* coordinates of seg at six decimals
SameRecord(line, seg) ==
  LET a == SplitWs(line)
      b == SplitWs(seg)
  IN  /\ Len(a) = Len(b)
      /\ IntParse(a[1]).ok /\ IntParse(a[1]).val = IntParse(b[1]).val
      /\ \A i \in 2..Len(a) :
           FloatParse(a[i]).ok /\ FloatParse(a[i]).u = Round6(FloatParse(b[i]).u)

\* The pairs of accepted records that a literal backslash-n joins: j is in
\* the set when the j-th backslash-n has an accepted record on either side
EscJoined(text) ==
  LET parts == SplitOn(Strip(text), "esc")
      left(j)  == LET l == SplitOn(parts[j], "nl") IN l[Len(l)]
      right(j) == SplitOn(parts[j + 1], "nl")[1]
  IN  { j \in 1..(Len(parts) - 1) : RuleAccept(left(j)) /\ RuleAccept(right(j)) }
EscJoinedRecords(text) ==
  LET parts == SplitOn(Strip(text), "esc")
  IN  UNION { { LET l == SplitOn(parts[j], "nl") IN l[Len(l)],
                SplitOn(parts[j + 1], "nl")[1] } : j \in EscJoined(text) }

\* C1: every readable, writable file that holds two or more valid records
\* joined by a literal backslash-n is rewritten by fix_label_format, with each
\* such record on a physical line of its own, whatever else the file holds.
C1_EscapedRecordsAreSplit ==
  \A h \in Calls :
    (h.mode = "rw" /\ EscJoined(h.before) # {}) =>
      /\ h.wrote
      /\ \A i \in 1..Len(h.after) : h.after[i].k # "esc"
      /\ \A r \in EscJoinedRecords(h.before) :
           \E i \in DOMAIN OutLines(h.after) : SameRecord(OutLines(h.after)[i], r)

\* C2: when fix_all_labels has finished, 'errors' is the number of files whose
\* call raised an exception, and a readable file with zero accepted lines is
\* not among them.
C2_ErrorsCountExceptions ==
  (pc = "done" /\ dirs.root) =>
    stats.errors =
      Cardinality({ f \in DOMAIN fs : hist[f] # <<>> /\ hist[f][1].msg = "Error" })

\* C3: fix_label_format writes only when at least one line was accepted; a
\* file that is empty once stripped, or that yields no accepted line, holds
\* after the call what it held before.
C3_NoWriteWithoutAcceptedLine ==
  \A h \in Calls :
    /\ h.wrote => Len(AcceptedSegments(h.before)) >= 1 /\ h.n >= 1
    /\ h.after # h.before => h.wrote
    /\ h.msg \in {"Empty file", "No valid annotations found"} =>
         ~h.wrote /\ h.after = h.before
    /\ (h.mode # "none" /\ Strip(h.before) = <<>>) =>
         h.msg = "Empty file" /\ h.after = h.before
    /\ (h.mode # "none" /\ Len(AcceptedSegments(h.before)) = 0) =>
         h.after = h.before

\* C3 witness: a call on a file with text and no acceptable line has returned
\* "No valid annotations found"
C3_Witness ==
  \E h \in Calls :
    /\ h.msg = "No valid annotations found"
    /\ Strip(h.before) # <<>>
    /\ h.after = h.before

\* The lines a call has written (none when it wrote nothing)
Written(h) == IF h.wrote THEN OutLines(h.after) ELSE <<>>
Repaired(h) == h.msg \in {"Fixed", "No valid annotations found"}
FewerThan7Tokens(line) == Len(SplitWs(line)) < 7
MoreThan5Tokens(line) == Len(SplitWs(line)) > 5

\* C4: a segment is accepted as a box line exactly when it has 5 tokens, the
\* first an integer in 0..39 and the other four numbers in [0,1]: the box
\* lines a repair writes are as many as the segments that meet the rule, so
\* every 5-token segment that misses a clause is left out.
C4_BoxAcceptance ==
  \A h \in Calls :
    Repaired(h) =>
      /\ Len(SelectSeq(Written(h), FewerThan7Tokens))
           = Len(SelectSeq(Segments(h.before), RuleBox))
      /\ \A i \in DOMAIN Written(h) :
           FewerThan7Tokens(Written(h)[i]) => Len(SplitWs(Written(h)[i])) = 5

\* C4 witness: a file of one box of class 39 has been rewritten
C4_Witness ==
  \E h \in Calls :
    /\ h.msg = "Fixed" /\ h.n = 1
    /\ Len(Segments(h.before)) = 1
    /\ RuleBox(Segments(h.before)[1])
    /\ IntParse(SplitWs(Segments(h.before)[1])[1]).val = 39

\* C5: a segment is accepted as a polygon line exactly when its token count
\* is odd and at least 7, the first token an integer in 0..39 and every other
\* token a number in [0,1]: the polygon lines a repair writes are as many as
\* the segments that meet the rule.
C5_PolygonAcceptance ==
  \A h \in Calls :
    Repaired(h) =>
      /\ Len(SelectSeq(Written(h), MoreThan5Tokens))
           = Len(SelectSeq(Segments(h.before), RulePoly))
      /\ \A i \in DOMAIN Written(h) :
           MoreThan5Tokens(Written(h)[i]) =>
             /\ Len(SplitWs(Written(h)[i])) >= 7
             /\ Len(SplitWs(Written(h)[i])) % 2 = 1

\* C5 witness: one polygon of 9 tokens has been rewritten
C5_Witness ==
  \E h \in Calls :
    /\ h.msg = "Fixed" /\ h.n = 1
    /\ Len(Segments(h.before)) = 1
    /\ RulePoly(Segments(h.before)[1])
    /\ Len(SplitWs(Segments(h.before)[1])) = 9

\* WellFormed as the specification defines it: more than one line, and a
\* first line of 5 tokens or of an odd number of tokens >= 7
WellFormedRule(text) ==
  LET lines == SplitOn(Strip(text), "nl")
      n == Len(SplitWs(lines[1]))
  IN  Len(lines) > 1 /\ (n = 5 \/ (n >= 7 /\ n % 2 = 1))

\* C6: a readable file is reported "Already correct format" exactly when it
\* is WellFormed, whatever its other lines and its token values, and is then
\* not rewritten.
C6_AlreadyCorrectIffWellFormed ==
  \A h \in Calls :
    h.mode # "none" =>
      /\ (h.msg = "Already correct format") <=> WellFormedRule(h.before)
      /\ h.msg = "Already correct format" => h.ok /\ ~h.wrote /\ h.after = h.before

\* C6 witness: a file whose first line has a recognised token count and whose
\* lines are not all acceptable has been reported "Already correct format"
C6_Witness ==
  \E h \in Calls :
    /\ h.msg = "Already correct format"
    /\ \E i \in DOMAIN Segments(h.before) :
         Strip(Segments(h.before)[i]) # <<>> /\ ~RuleAccept(Segments(h.before)[i])

\* C7: a readable file is "Empty file", and counted under 'empty', exactly
\* when it holds nothing but whitespace.
C7_EmptyIffBlank ==
  \A h \in Calls :
    h.mode # "none" =>
      /\ (h.msg = "Empty file") <=> (\A i \in DOMAIN h.before : IsSpace(h.before[i]))
      /\ (Counted(h) = "empty") <=> (\A i \in DOMAIN h.before : IsSpace(h.before[i]))

\* C7 witness: a file of whitespace alone has been reported "Empty file"
C7_Witness ==
  \E h \in Calls : h.msg = "Empty file" /\ h.before # <<>>

\* A line as the repair renders it: tokens one blank apart, a class id the
\* way str(int) writes it, every coordinate with six decimals
Rendered(line) ==
  LET t == SplitWs(line)
  IN  /\ Len(t) >= 5
      /\ line = Line([i \in DOMAIN t |-> t[i][1]])
      /\ t[1][1].k = "int" /\ t[1][1].x = 0
      /\ \A i \in 2..Len(t) : t[i][1].k = "dec" /\ t[i][1].x = 6 /\ t[i][1].v % 10 = 0

C9_OrderPreserved ==
  \A h \in Calls :
    h.msg = "Fixed" =>
      /\ Len(OutLines(h.after)) = Len(AcceptedSegments(h.before))
      /\ \A i \in DOMAIN OutLines(h.after) :
           SameRecord(OutLines(h.after)[i], AcceptedSegments(h.before)[i])

\* C9 witness: a repair has written two records of different classes that a
\* dropped segment separated
C9_Witness ==
  \E h \in Calls :
    /\ h.msg = "Fixed" /\ h.n = 2
    /\ Len(Segments(h.before)) = 3
    /\ ~RuleAccept(Segments(h.before)[2]) /\ Strip(Segments(h.before)[2]) # <<>>
    /\ IntParse(SplitWs(OutLines(h.after)[1])[1]).val
         # IntParse(SplitWs(OutLines(h.after)[2])[1]).val

\* C10: on a readable WellFormed file a second fix_label_format leaves what
\* the first one left.
C10_IdempotentOnWellFormed ==
  \A f \in DOMAIN hist :
    (Len(hist[f]) >= 2 /\ hist[f][1].mode # "none" /\ WellFormedRule(hist[f][1].before))
      => hist[f][2].after = hist[f][1].after

\* C10 witness: two calls have been made on a WellFormed file that holds a
\* line the repair would drop
C10_Witness ==
  \E f \in DOMAIN hist :
    /\ Len(hist[f]) >= 2 /\ hist[f][1].mode = "rw"
    /\ WellFormedRule(hist[f][1].before)
    /\ \E i \in DOMAIN Segments(hist[f][1].before) :
         /\ Strip(Segments(hist[f][1].before)[i]) # <<>>
         /\ ~RuleAccept(Segments(hist[f][1].before)[i])

\* C11: re-parsing a line that fix_label_format wrote gives the class id of
\* the accepted input line and coordinates within 1e-6 (10 units of 10^-7) of
\* the input's, each still in [0,1].
C11_RoundTripWithinTolerance ==
  \A h \in Calls :
    h.msg = "Fixed" =>
      /\ Len(OutLines(h.after)) = Len(AcceptedSegments(h.before))
      /\ \A i \in DOMAIN OutLines(h.after) :
           LET a == SplitWs(OutLines(h.after)[i])
               b == SplitWs(AcceptedSegments(h.before)[i])
           IN  /\ Len(a) = Len(b)
               /\ IntParse(a[1]).ok /\ IntParse(a[1]).val = IntParse(b[1]).val
               /\ \A j \in 2..Len(a) :
                    /\ FloatParse(a[j]).ok /\ ~FloatParse(a[j]).nan
                    /\ FloatParse(a[j]).u - FloatParse(b[j]).u \in -10..10
                    /\ FloatParse(a[j]).u \in 0..Unit

\* C11 witness: a line has been rewritten whose last coordinate, 0.9999996,
\* has more than six decimals and is written as 1.000000
C11_Witness ==
  \E h \in Calls :
    /\ h.msg = "Fixed" /\ h.n = 1
    /\ LET b == SplitWs(AcceptedSegments(h.before)[1])
           a == SplitWs(OutLines(h.after)[1])
       IN  /\ FloatParse(b[Len(b)]).u = Unit - 4
           /\ FloatParse(a[Len(a)]).u = Unit

\* A verification of the files as they stand now
FreshReport == report.done /\ report.seen = [id \in DOMAIN fs |-> fs[id].text]
NonBlankLines(text) ==
  SelectSeq(SplitOn(text, "nl"), LAMBDA l : Strip(l) # <<>>)

\* C12: verify_fixed_format counts a readable label file as valid exactly
\* when it has a non-blank line and every non-blank line meets the acceptance
\* rule.
C12_ValidIffAllLinesAccepted ==
  (FreshReport /\ fs[1].mode # "none") =>
    LET lines == NonBlankLines(fs[1].text)
    IN  (report.per["train"].valid_files = 1)
          <=> (Len(lines) >= 1 /\ \A i \in DOMAIN lines : RuleAccept(lines[i]))

\* C12 witness: a file with an accepted line followed by a rejected one has
\* been verified and is not counted
C12_Witness ==
  /\ FreshReport /\ fs[1].mode = "rw"
  /\ report.per["train"].valid_files = 0
  /\ LET lines == NonBlankLines(fs[1].text)
     IN  Len(lines) = 2 /\ RuleAccept(lines[1]) /\ ~RuleAccept(lines[2])

\* The label files of the split directories that exist
FoundFiles == {f \in DOMAIN fs : fs[f].split \in dirs.splits}
StatsSum == stats.fixed + stats.already_correct + stats.empty + stats.errors

\* C13: fix_all_labels calls fix_label_format exactly once on every label
\* file of every existing split directory, whatever the calls raise; every
\* call adds one to exactly one counter, so the four counters add up to the
\* number of calls made so far and, at the end, to the number of files found.
C13_EveryFileCountedOnce ==
  /\ (pc # "start" /\ dirs.root) =>
       /\ \A k \in DOMAIN stats : stats[k] \in 0..Cardinality(FoundFiles)
       /\ StatsSum = Cardinality({f \in DOMAIN fs : hist[f] # <<>>})
       /\ \A f \in DOMAIN fs : Len(hist[f]) <= 1
  /\ (pc = "done" /\ dirs.root) =>
       /\ \A f \in DOMAIN fs : Len(hist[f]) = (IF f \in FoundFiles THEN 1 ELSE 0)
       /\ StatsSum = Cardinality(FoundFiles)

\* C13 witness: the walk is over, one file raised an exception, and the
\* files beside it were processed all the same
C13_Witness ==
  /\ pc = "done" /\ dirs.root
  /\ Cardinality(FoundFiles) >= 2
  /\ \E f \in FoundFiles : hist[f] # <<>> /\ hist[f][1].msg = "Error"
  /\ \E f \in FoundFiles : hist[f] # <<>> /\ hist[f][1].msg = "Fixed"
  /\ StatsSum = Cardinality(FoundFiles)

\* The files of one split that the walk has counted under counter k
CountedUnder(split, k) ==
  {f \in DOMAIN fs : fs[f].split = split /\ hist[f] # <<>> /\ Counted(hist[f][1]) = k}

\* C14: when the walk has gone through the files of a split, the counters it
\* holds and can output for that split are the split's own counts of fixed,
\* already_correct, empty and errors.
C14_PerSplitCounts ==
  (pc = "files" /\ todo = {}) =>
    \A k \in DOMAIN stats : stats[k] = Cardinality(CountedUnder(Splits[splitIdx], k))

\* The image files (png, jpg, jpeg) of a split that have the stem of label f
ImagesWithStemOf(f, split) ==
  {i \in imgs.files : i.split = split /\ i.stem = f /\ i.ext \in {"png", "jpg", "jpeg"}}

\* C15: in a matching check (diagnose_dataset, verify_dataset), 'matched' is
\* the number of label files of the split whose stem is the stem of exactly
\* one image file of the split, and matched plus images-without-labels is the
\* number of image files of the split.
C15_MatchedPairs ==
  \A s \in SplitNames :
    match.per[s].checked =>
      /\ match.per[s].matched =
           Cardinality({f \in DOMAIN fs :
                          fs[f].split = s /\ Cardinality(ImagesWithStemOf(f, s)) = 1})
      /\ match.per[s].matched + match.per[s].unmatched_images =
           Cardinality({i \in imgs.files : i.split = s /\ i.ext \in {"png", "jpg", "jpeg"}})

\* The files in the labels and images directories of the dataset
Present == {[split |-> fs[f].split, stem |-> f, ext |-> "txt"] : f \in DOMAIN fs} \cup imgs.files

\* C16: a label or image file leaves the dataset without being kept in a
\* <split>_problematic folder only in the label_issue_fix main flow, after
\* option 1 was selected and the confirmation was answered 'y'; no step of
\* fix_all_labels, verify_fixed_format or detect_annotation_type removes a
\* file.
C16_DeleteOnlyAfterConfirmation ==
  [][ ((Present \ Present') \ gone'.moved # {} \/ gone'.deleted # gone.deleted)
        => /\ main.prog = "label_issue_fix"
           /\ main.choice = "1"
           /\ main.confirm = "y"
           /\ main'.last = "fix_empty_labels" ]_vars

\* C16 witness: option 1 was confirmed with 'y' and a label file and an image
\* file have been deleted
C16_Witness ==
  /\ main.choice = "1" /\ main.confirm = "y"
  /\ \E d \in gone.deleted : d.ext = "txt" /\ d \notin Present
  /\ \E d \in gone.deleted : d.ext # "txt" /\ d \notin Present

\* C17: a step that is a call of verify_fixed_format, detect_annotation_type,
\* analyze_empty_labels or verify_dataset leaves every label file, every
\* image file and the directories as they were; and in the label_format_fix
\* main flow the label files stay as they were as long as the answer to "Fix
\* the label format?" is not 'y'.
C17_ReadOnlyUnlessAnswerY ==
  [][ /\ (main' # main /\ main'.last \in {"verify_fixed_format", "detect_annotation_type",
                                          "analyze_empty_labels", "verify_dataset"})
           => fs' = fs /\ imgs' = imgs /\ dirs' = dirs /\ gone' = gone
      /\ (main'.prog = "label_format_fix" /\ main'.answer # "y") => fs' = fs ]_vars

\* C17 witness: the label_format_fix main flow has ended after the answer
\* 'n', both of its read-only calls made, with a label file that
\* fix_all_labels would have rewritten still as it was
C17_Witness ==
  /\ main.prog = "label_format_fix" /\ main.at = "end" /\ main.answer = "n"
  /\ report.done
  /\ \E f \in DOMAIN fs :
       /\ hist[f] = <<>>
       /\ fs[f].mode = "rw"
       /\ \E i \in DOMAIN fs[f].text : fs[f].text[i].k = "esc"
       /\ analysis.types.bbox_files + analysis.types.polygon_files
            + analysis.types.mixed_files + analysis.types.invalid_files >= 1

\* C18: the first fix_label_format call on a file that convert_dataset wrote
\* for a mask with k >= 1 bounding boxes returns 'Fixed' with n = k and leaves
\* k lines of 5 tokens; line i carries the class id of the converter's box i
\* and its four coordinates to six decimals.
C18_RepairRecoversConverterOutput ==
  \A f \in DOMAIN fs :
    hist[f] # <<>> =>
      LET h == hist[f][1]
          k == Len(masks[f].contours)
          out == OutLines(h.after)
      IN  /\ k >= 1
          /\ h.ok /\ h.msg = "Fixed" /\ h.n = k
          /\ Len(out) = k
          /\ \A i \in 1..k :
               LET parts == SplitWs(out[i])
                   b == BoundingBoxes(masks[f].contours)[i]
                   want == <<b.x_center, b.y_center, b.box_width, b.box_height>>
               IN  /\ Len(parts) = 5
                   /\ IntParse(parts[1]).ok /\ IntParse(parts[1]).val = masks[f].contours[i].class_id
                   /\ \A j \in 1..4 : /\ FloatParse(parts[j + 1]).ok
                                      /\ FloatParse(parts[j + 1]).u - want[j] \in -5..5

\* C18 witness: a converted file of two boxes of different classes and sizes
\* has been repaired
C18_Witness ==
  \E f \in DOMAIN fs :
    /\ hist[f] # <<>>
    /\ Len(masks[f].contours) = 2
    /\ masks[f].contours[1].class_id = 18 /\ masks[f].contours[2].class_id = 0
    /\ masks[f].contours[1].w # masks[f].contours[2].w
    /\ hist[f][1].msg = "Fixed" /\ hist[f][1].n = 2
    /\ \E i \in DOMAIN hist[f][1].before : hist[f][1].before[i].k = "esc"

\* The calls on file 1 that rewrote it to what it holds now
RewroteToCurrent == {h \in Calls : h.msg = "Fixed" /\ h.after = fs[1].text}

\* C19: a file that fix_label_format has rewritten ('Fixed n') and that is
\* verified as rewritten is counted valid by verify_fixed_format and adds n to
\* the total of annotations; each of its lines meets the acceptance rule.
C19_RewrittenFileIsValid ==
  FreshReport =>
    \A h \in RewroteToCurrent :
      /\ h.n >= 1
      /\ report.per["train"].valid_files = 1
      /\ report.per["train"].total_objects = h.n
      /\ report.per["train"].bbox_count + report.per["train"].polygon_count = h.n
      /\ \A i \in DOMAIN OutLines(h.after) : RuleAccept(OutLines(h.after)[i])

\* C19 witness: a file of two records joined by backslash-n was rewritten as
\* two lines and then verified
C19_Witness ==
  /\ FreshReport
  /\ \E h \in RewroteToCurrent :
       /\ h.n = 2
       /\ \E i \in DOMAIN h.before : h.before[i].k = "esc"
       /\ report.per["train"].valid_files = 1
       /\ report.per["train"].total_objects = 2

\* C20 as stated: a call that follows a 'Fixed n' call on the same file
\* reports 'Already correct format', for every n >= 1.
C20_FixedThenAlreadyCorrect ==
  \A f \in DOMAIN hist : \A i \in 1..(Len(hist[f]) - 1) :
    hist[f][i].msg = "Fixed" => hist[f][i + 1].msg = "Already correct format"

\* C20, amended: a call that follows a 'Fixed n' call on the same file
\* reports 'Already correct format' and writes nothing when n >= 2; when
\* n = 1 the file holds a single line, and the call reports 'Fixed 1' again,
\* writing the same content.
C20_FixedThenStable ==
  \A f \in DOMAIN hist : \A i \in 1..(Len(hist[f]) - 1) :
    hist[f][i].msg = "Fixed" =>
      /\ hist[f][i].n >= 2 =>
           /\ hist[f][i + 1].ok /\ hist[f][i + 1].msg = "Already correct format"
           /\ ~hist[f][i + 1].wrote
      /\ hist[f][i].n = 1 =>
           /\ hist[f][i + 1].ok /\ hist[f][i + 1].msg = "Fixed" /\ hist[f][i + 1].n = 1
      /\ hist[f][i + 1].before = hist[f][i].after
      /\ hist[f][i + 1].after = hist[f][i].after

\* C20 witness: 'Fixed 3' for records joined by backslash-n, then a second
\* call on the rewritten file
C20_Witness ==
  \E f \in DOMAIN hist :
    /\ Len(hist[f]) = 2
    /\ hist[f][1].msg = "Fixed" /\ hist[f][1].n = 3
    /\ \E i \in DOMAIN hist[f][1].before : hist[f][1].before[i].k = "esc"
    /\ hist[f][2].msg = "Already correct format"

\* The calls that reported the file as it stands now "Already correct format"
\* (fix_all_labels counts them under already_correct)
ReportedCorrect ==
  {h \in Calls : h.ok /\ h.msg = "Already correct format" /\ h.after = fs[1].text}

\* C21 as stated: a file reported 'Already correct format' is counted as a
\* valid label file by verify_fixed_format and holds no line that the
\* acceptance rule rejects.
C21_AlreadyCorrectIsValid ==
  FreshReport =>
    \A h \in ReportedCorrect :
      /\ report.per["train"].valid_files = 1
      /\ \A i \in DOMAIN NonBlankLines(fs[1].text) : RuleAccept(NonBlankLines(fs[1].text)[i])

\* C21, amended: a file reported 'Already correct format' has more than one
\* line and a first line of 5 tokens or of an odd number >= 7 of tokens; it
\* is counted valid by verify_fixed_format exactly when every one of its
\* non-blank lines, the first included, meets the acceptance rule, and
\* otherwise adds nothing to the valid files or the total of annotations.
C21_AlreadyCorrectValidIffAllLinesPass ==
  FreshReport =>
    \A h \in ReportedCorrect :
      LET lines == NonBlankLines(fs[1].text)
          n == Len(SplitWs(lines[1]))
          all_pass == \A i \in DOMAIN lines : RuleAccept(lines[i])
      IN  /\ Len(SplitOn(Strip(fs[1].text), "nl")) > 1
          /\ n = 5 \/ (n >= 7 /\ n % 2 = 1)
          /\ (report.per["train"].valid_files = 1) <=> all_pass
          /\ report.per["train"].total_objects = (IF all_pass THEN Len(lines) ELSE 0)

\* C21 witness: a file whose first line is an accepted box and whose second
\* line is rejected was reported already correct and then verified as not
\* valid
C21_Witness ==
  /\ FreshReport
  /\ report.per["train"].valid_files = 0
  /\ \E h \in ReportedCorrect :
       LET lines == NonBlankLines(fs[1].text)
       IN  Len(lines) = 2 /\ RuleAccept(lines[1]) /\ ~RuleAccept(lines[2])

\* C22: in every per-split report of verify_fixed_format, 'Total
\* annotations' is 'Bounding boxes' plus 'Polygons'.
C22_TotalIsBoxesPlusPolygons ==
  report.done =>
    \A s \in SplitNames :
      report.per[s].total_objects = report.per[s].bbox_count + report.per[s].polygon_count

\* A line that fix_label_format accepts (it appends a line for it) and that
\* verify_fixed_format accepts (it counts it as a box or a polygon)
AcceptedByFormatFix(line) ==
  ParseLine(line) # <<>> /\ VerifyLine(line) \in {"bbox", "polygon"}

\* The readable, non-empty label files of the splits that label_issue_fix
\* looks at, all of whose non-blank lines are accepted by label_format_fix
AllLinesAccepted(f) ==
  \A i \in DOMAIN NonBlankLines(fs[f].text) : AcceptedByFormatFix(NonBlankLines(fs[f].text)[i])
ReadableNonEmpty == {f \in DOMAIN fs : fs[f].mode # "none" /\ Strip(fs[f].text) # <<>>}

\* C23: the copies of the per-line rule agree.  A call of
\* analyze_empty_labels counts as valid exactly the readable non-empty files
\* whose lines fix_label_format and verify_fixed_format accept, and a call of
\* fix_empty_labels with 'remove' or 'skip' keeps exactly those files.
C23_RuleCopiesAgree ==
  [][ /\ (main' # main /\ main'.last = "analyze_empty_labels")
           => analysis'.labels.valid
                = Cardinality({f \in ReadableNonEmpty : AllLinesAccepted(f)})
      /\ (main' # main /\ main'.last = "fix_empty_labels"
            /\ main'.action \in {"remove", "skip"})
           => \A f \in ReadableNonEmpty :
                fs[f].split \in imgs.splits => (f \in DOMAIN fs' <=> AllLinesAccepted(f)) ]_vars

\* What the acceptance rule says of a label file: readable, not empty once
\* stripped, every non-blank line accepted
ValidByRule(f) ==
  /\ fs[f].mode # "none"
  /\ Strip(fs[f].text) # <<>>
  /\ \A i \in DOMAIN NonBlankLines(fs[f].text) : RuleAccept(NonBlankLines(fs[f].text)[i])

\* The names of the files a step takes out of the dataset
Taken == Present \ Present'

C25_NoIssuesAfterFix ==
  [][ (/\ main.last = "fix_empty_labels" /\ main.action \in {"remove", "skip"}
       /\ main'.last = "analyze_empty_labels")
        => /\ analysis'.labels.empty = 0
           /\ analysis'.labels.corrupted = 0
           /\ ~main'.has_issues ]_vars

(* ------------------------- masks_to_yolo_covertor.py, colour lookup *)

\* create_color_to_class_mapping: the BGR colours in dictionary order
ColorToClass ==
  << [c |-> <<128, 64, 128>>, id |-> 0],  [c |-> <<244, 35, 232>>, id |-> 1],
     [c |-> <<70, 70, 70>>, id |-> 2],    [c |-> <<102, 102, 156>>, id |-> 3],
     [c |-> <<190, 153, 153>>, id |-> 4], [c |-> <<153, 153, 153>>, id |-> 5],
     [c |-> <<250, 170, 30>>, id |-> 6],  [c |-> <<220, 220, 0>>, id |-> 7],
     [c |-> <<107, 142, 35>>, id |-> 8],  [c |-> <<152, 251, 152>>, id |-> 9],
     [c |-> <<70, 130, 180>>, id |-> 10], [c |-> <<220, 20, 60>>, id |-> 11],
     [c |-> <<255, 0, 0>>, id |-> 12],    [c |-> <<0, 0, 142>>, id |-> 13],
     [c |-> <<0, 0, 70>>, id |-> 14],     [c |-> <<0, 60, 100>>, id |-> 15],
     [c |-> <<0, 80, 100>>, id |-> 16],   [c |-> <<0, 0, 230>>, id |-> 17],
     [c |-> <<119, 11, 32>>, id |-> 18] >>

\* threshold=50; the distance is kept squared, np.sqrt being strictly
\* increasing on the integers that occur
ColorThreshold == 50
\* A component of a mask read by cv2.imread is an np.uint8
Byte == 256

\* What `np.uint8 - int` evaluates in: NumPy 1.x promotes the pair of
\* scalars to int64, NumPy 2 (NEP 50) keeps uint8 and wraps around. The
\* repository pins no NumPy version.
Promotions == {"int64", "uint8"}

\* (a - b), (a - b) ** 2 and the running sum() under a promotion
Wrap(x, p) == IF p = "uint8" THEN x % Byte ELSE x
SquaredDistance(target, color, p) ==
  LET sq(i) == Wrap(Wrap(target[i] - color[i], p) * Wrap(target[i] - color[i], p), p)
  IN  Wrap(Wrap(Wrap(sq(1), p) + sq(2), p) + sq(3), p)

\* The loop of find_closest_color from entry i on; min2 < 0 stands for inf
RECURSIVE ClosestFrom(_, _, _, _, _)
ClosestFrom(i, min2, closest, target, p) ==
  IF i > Len(ColorToClass) THEN closest
  ELSE LET d2 == SquaredDistance(target, ColorToClass[i].c, p)
       IN  IF (min2 < 0 \/ d2 < min2) /\ d2 < ColorThreshold * ColorThreshold
             THEN ClosestFrom(i + 1, d2, ColorToClass[i].id, target, p)
             ELSE ClosestFrom(i + 1, min2, closest, target, p)

find_closest_color(target, p) == ClosestFrom(1, -1, NoClass, target, p)

\* color_tuple in color_to_class
IsMapped(target) == \E i \in 1..Len(ColorToClass) : ColorToClass[i].c = target
MappedClass(target) == ColorToClass[CHOOSE i \in 1..Len(ColorToClass) : ColorToClass[i].c = target].id

\* mask_to_bounding_boxes, the class of one unique colour of the mask
ClassOfColor ==
  /\ lookup.promotion \in Promotions
  /\ ~lookup.done
  /\ lookup' = [lookup EXCEPT
                  !.done = TRUE,
                  !.called = ~IsMapped(lookup.target),
                  !.class_id = IF IsMapped(lookup.target) THEN MappedClass(lookup.target)
                               ELSE find_closest_color(lookup.target, lookup.promotion)]
  /\ UNCHANGED <<fs, dirs, hist, pc, splitIdx, todo, stats, report, imgs, gone, main, match,
                 analysis, masks, home>>

\* The component values of the colours looked up
ColorShades == {0, 20, 64, 70, 100, 128, 142, 230, 255}

\* One unique colour of a mask, under either promotion
InitColor ==
  /\ \E p \in Promotions : \E b, g, r \in ColorShades :
       lookup = [NoLookup EXCEPT !.promotion = p, !.target = <<b, g, r>>]
  /\ fs = <<>>
  /\ dirs = [root |-> TRUE, splits |-> {"train"}]
  /\ hist = <<>>
  /\ pc = "idle"
  /\ splitIdx = 0
  /\ todo = {}
  /\ stats = ZeroStats
  /\ report = NoReport
  /\ imgs = NoImages
  /\ gone = NothingGone
  /\ main = NoMain
  /\ match = NoMatch
  /\ analysis = NoAnalysis
  /\ masks = NoMasks
  /\ home = NoHome

NextColor == ClassOfColor

SpecColor == InitColor /\ [][NextColor]_vars

(* --------------------------------------------------- config_issue_fix.py *)

\* possible_paths of find_ultralytics_settings, in order: macOS, Linux,
\* Windows, ~/.ultralytics/settings.json
NumCandidates == 4
Candidates == 1..NumCandidates

\* The candidates below a directory of cache_dirs: ~/.ultralytics
InCacheDir(i) == i = 4

\* What a settings file holds at start: JSON of the user, or text json.load
\* rejects; a .json.backup of an earlier run; what the reset writes
UserContents == {"user", "broken"}
OldBackup == "old"
CleanSettings == "clean"

\* The first candidate that exists, 0 for settings_path = None
FirstExisting(settings) ==
  IF \E i \in Candidates : settings[i] # Absent
    THEN CHOOSE i \in Candidates :
           settings[i] # Absent /\ \A j \in 1..(i - 1) : settings[j] = Absent
    ELSE 0

\* __main__, step 1: find_ultralytics_settings changes no file
FindUltralyticsSettings ==
  /\ home.at = "start"
  /\ home' = [home EXCEPT !.at = "found", !.found = FirstExisting(home.settings)]
  /\ UNCHANGED <<fs, dirs, hist, pc, splitIdx, todo, stats, report, imgs, gone, main, match,
                 analysis, masks, lookup>>

\* __main__, step 2: clear_all_yolo_cache removes the cache directories
\* with all they hold
ClearAllYoloCache ==
  /\ home.at = "found"
  /\ home' = [home EXCEPT
                !.at = "cleared",
                !.settings = [i \in Candidates |->
                                IF InCacheDir(i) THEN Absent ELSE home.settings[i]],
                !.backup = [i \in Candidates |->
                              IF InCacheDir(i) THEN Absent ELSE home.backup[i]]]
  /\ UNCHANGED <<fs, dirs, hist, pc, splitIdx, todo, stats, report, imgs, gone, main, match,
                 analysis, masks, lookup>>

\* __main__, step 3: reset_ultralytics_settings up to shutil.copy2
BackupSettings ==
  /\ home.at = "cleared"
  /\ LET found == FirstExisting(home.settings)
     IN  home' = [home EXCEPT
                    !.found = found,
                    !.at = IF found = 0 THEN "done" ELSE "backed",
                    !.backup = IF found = 0 THEN home.backup
                               ELSE [home.backup EXCEPT ![found] = home.settings[found]]]
  /\ UNCHANGED <<fs, dirs, hist, pc, splitIdx, todo, stats, report, imgs, gone, main, match,
                 analysis, masks, lookup>>

\* reset_ultralytics_settings from open(settings_path, 'w') on
WriteCleanSettings ==
  /\ home.at = "backed"
  /\ home' = [home EXCEPT !.at = "done",
                          !.settings = [home.settings EXCEPT ![home.found] = CleanSettings]]
  /\ UNCHANGED <<fs, dirs, hist, pc, splitIdx, todo, stats, report, imgs, gone, main, match,
                 analysis, masks, lookup>>

\* Any of the candidates may hold a settings file and an earlier backup
InitHome ==
  /\ \E settings \in [Candidates -> UserContents \cup {Absent}] :
       \E backup \in [Candidates -> {OldBackup, Absent}] :
         home = [at |-> "start", settings |-> settings, backup |-> backup,
                 orig |-> settings, found |-> 0]
  /\ fs = <<>>
  /\ dirs = [root |-> TRUE, splits |-> {"train", "val"}]
  /\ hist = <<>>
  /\ pc = "idle"
  /\ splitIdx = 0
  /\ todo = {}
  /\ stats = ZeroStats
  /\ report = NoReport
  /\ imgs = NoImages
  /\ gone = NothingGone
  /\ main = NoMain
  /\ match = NoMatch
  /\ analysis = NoAnalysis
  /\ masks = NoMasks
  /\ lookup = NoLookup

NextHome ==
  \/ FindUltralyticsSettings
  \/ ClearAllYoloCache
  \/ BackupSettings
  \/ WriteCleanSettings

SpecHome == InitHome /\ [][NextHome]_vars

\* The .txt files as convert_dataset wrote them, verified by
\* verify_conversion since
ConvertedAndVerified ==
  {f \in DOMAIN fs : /\ hist[f] = <<>>
                     /\ analysis.conversion.done
                     /\ analysis.conversion.seen = [g \in DOMAIN fs |-> fs[g].text]}

\* C26: the .txt file that convert_dataset wrote for a mask with k bounding
\* boxes ends with a line break and has k physical lines of exactly 5 tokens
\* each, and verify_conversion counts k objects for it.
C26_ConverterWritesYoloLines ==
  \A f \in ConvertedAndVerified :
    LET k == Len(masks[f].contours)
        text == fs[f].text
        lines == SplitOn(text, "nl")
    IN  /\ k > 0 => text # <<>> /\ text[Len(text)].k = "nl"
        /\ Len(lines) = k + 1
        /\ \A i \in 1..k : Len(SplitWs(lines[i])) = 5
        /\ analysis.conversion.total_objects[fs[f].split] = k

\* The exact squared Euclidean distance of two colours
ExactSquaredDistance(target, color) ==
  (target[1] - color[1]) * (target[1] - color[1])
    + (target[2] - color[2]) * (target[2] - color[2])
    + (target[3] - color[3]) * (target[3] - color[3])

\* The entries of the mapping nearest to a colour
Nearest(target) ==
  {i \in 1..Len(ColorToClass) :
     \A j \in 1..Len(ColorToClass) :
       ExactSquaredDistance(target, ColorToClass[i].c) <= ExactSquaredDistance(target, ColorToClass[j].c)}

\* C27: for every colour with components in 0..255 that
\* mask_to_bounding_boxes passes on, find_closest_color returns the class of
\* a mapped colour at the smallest Euclidean distance when that distance is
\* below the threshold, and None otherwise.
C27_ClosestColorWithinThreshold ==
  (lookup.done /\ lookup.called) =>
    LET near == Nearest(lookup.target)
        best == ExactSquaredDistance(lookup.target, ColorToClass[CHOOSE i \in near : TRUE].c)
    IN  IF best < ColorThreshold * ColorThreshold
          THEN lookup.class_id \in {ColorToClass[i].id : i \in near}
          ELSE lookup.class_id = NoClass

\* The candidates whose settings file existed at start and no longer holds
\* what it held
Destroyed ==
  {i \in DOMAIN home.settings : home.orig[i] # Absent /\ home.settings[i] # home.orig[i]}

\* C28: at every point of the main flow, a settings file that existed at
\* start and has been overwritten or deleted has a backup holding its
\* original content, at each of the four candidate locations.
C28_BackupBeforeDestruction ==
  \A i \in Destroyed : home.backup[i] = home.orig[i]

====
